---- MODULE Spec2Model ----
(***************************************************************************)
(* Movies-API, routes/v1.py: the request handlers of the movie store.      *)
(*                                                                         *)
(* State is the persistent store the handlers share (users, movies,        *)
(* orders), the clock, and for every concurrently served request the       *)
(* position of its handler between two awaited store calls together with   *)
(* the handler's local variables.  `last` is the response of the request   *)
(* that completed most recently: its status, the store calls the request   *)
(* made, and what the handler returned.                                    *)
(*                                                                         *)
(* Money is in integer cents, dates are day numbers, a datetime is a       *)
(* number of half days, an optional date is <<>> (None) or <<day>>.        *)
(* Movie attributes without decision logic (title, stock, images) are not  *)
(* tracked in the store; they are members of the attribute set only.       *)
(***************************************************************************)
EXTENDS Integers, Sequences, FiniteSets, TLC

VARIABLES users, movies, nextMovieId, orders, clock, req, last

vars == <<users, movies, nextMovieId, orders, clock, req, last>>

(* ------------------------------ bounds --------------------------------- *)
MaxMovies == 2
MaxOrders == 1
MaxClock == 2
MaxLate == 3

(* ----------------------------- constants ------------------------------- *)
DAYS_TO_RETURN_MOVIES == 7
DELAY_PENALTY_PERCENTAGE_PER_DAY == 10
HalfDaysPerDay == 2

HTTP_200_OK == 200
HTTP_201_CREATED == 201
HTTP_400_BAD_REQUEST == 400
HTTP_401_UNAUTHORIZED == 401
HTTP_403_FORBIDDEN == 403
HTTP_404_NOT_FOUND == 404
HTTP_500_INTERNAL_SERVER_ERROR == 500

NoUser == 0
UserIds == {1, 2}
TargetUserIds == {2, 3}
Callers == UserIds \cup {NoUser}
Roles == {"admin", "customer"}
RoleInputs == Roles \cup {"root"}

Procs == {1, 2}
PriceValues == {1000, 1005}
None == <<>>
EmptyMap == [k \in {} |-> FALSE]
AvailabilityFilters == {<<>>, <<TRUE>>, <<FALSE>>}

OrderTypes == {"rental", "purchase"}

(* The attributes the Movie model declares. *)
MovieFields == {"id", "title", "stock", "rental_price", "sale_price",
                "availability", "images"}
(* Names every pydantic model object answers hasattr() for without        *)
(* declaring them: the methods inherited from BaseModel.                  *)
InheritedAttrs == {"dict", "json", "copy"}
(* The columns of the movies table the model keeps. *)
TrackedFields == {"rental_price", "sale_price", "availability"}

Date(dt) == dt \div HalfDaysPerDay
PlusDays(dt, n) == dt + n * HalfDaysPerDay

Idle == [pc |-> "idle"]

(* ------------------------- utils.security ------------------------------ *)
(* validate_admin(user, raise_exceptions=False) *)
validate_admin(u) == u /= NoUser /\ u \in DOMAIN users /\ users[u] = "admin"

(* The principal of a request as the token dependency resolves it. *)
Principal(u) == [auth |-> u /= NoUser, admin |-> validate_admin(u)]

Respond(op, who, status, calls, note) ==
    last' = [op |-> op, auth |-> who.auth, admin |-> who.admin,
             status |-> status, calls |-> calls, note |-> note]

Suspend(p, r) == req' = [req EXCEPT ![p] = r]
Finish(p) == req' = [req EXCEPT ![p] = Idle]

(* ------------------------- utils.db_functions -------------------------- *)
db_get_movies(availability) ==
    {[id |-> m, availability |-> movies[m].availability] :
        m \in {k \in DOMAIN movies :
                 availability = None \/ movies[k].availability = availability[1]}}

Referenced(m) == \E i \in 1..Len(orders) : orders[i].movie_id = m

db_update_movie(m, field, value) ==
    IF m \in DOMAIN movies /\ field \in TrackedFields
    THEN [movies EXCEPT ![m] = [@ EXCEPT ![field] = value]]
    ELSE movies

(* A partial update: the named fields of the row and no others. *)
db_update_order(id, fields) ==
    [orders EXCEPT ![id] =
        [f \in DOMAIN @ |-> IF f \in DOMAIN fields THEN fields[f] ELSE @[f]]]

(* ------------------------------ Init ----------------------------------- *)
Init ==
    /\ users = (1 :> "admin") @@ (2 :> "customer")
    /\ movies = EmptyMap
    /\ nextMovieId = 1
    /\ orders = <<>>
    /\ clock = 0
    /\ req = [p \in Procs |-> Idle]
    /\ last = [op |-> "none", auth |-> FALSE, admin |-> FALSE,
               status |-> HTTP_200_OK, calls |-> <<>>, note |-> <<>>]

(* ------------------------------ users ---------------------------------- *)
(* Variant of patch_user that loads the target user before the role check. *)
patch_user_read_first(p, u, user_id, value) ==
    /\ req[p] = Idle
    /\ UNCHANGED <<users, movies, nextMovieId, orders, clock>>
    /\ LET who == Principal(u)
           in == [user_id |-> user_id, value |-> value] IN
       IF ~who.auth
       THEN Respond("patch_user", who, HTTP_401_UNAUTHORIZED, <<>>, <<>>) /\ UNCHANGED req
       ELSE IF user_id \notin DOMAIN users
       THEN Respond("patch_user", who, HTTP_404_NOT_FOUND, <<"db_get_user_by_id">>, <<>>)
            /\ UNCHANGED req
       ELSE IF ~who.admin
       THEN Respond("patch_user", who, HTTP_403_FORBIDDEN, <<"db_get_user_by_id">>, <<>>)
            /\ UNCHANGED req
       ELSE IF value \notin Roles
       THEN Respond("patch_user", who, HTTP_400_BAD_REQUEST, <<"db_get_user_by_id">>, <<>>)
            /\ UNCHANGED req
       ELSE IF users[user_id] = value
       THEN Respond("patch_user", who, HTTP_200_OK, <<"db_get_user_by_id">>, <<>>)
            /\ UNCHANGED req
       ELSE Suspend(p, [pc |-> "patch_user_update", who |-> who, in |-> in,
                        calls |-> <<"db_get_user_by_id">>])
            /\ UNCHANGED last

(* patch_user, up to its suspension after db_get_user_by_id. *)
patch_user(p, u, user_id, value) ==
    /\ req[p] = Idle
    /\ UNCHANGED <<users, movies, nextMovieId, orders, clock>>
    /\ LET who == Principal(u)
           in == [user_id |-> user_id, value |-> value] IN
       IF ~who.auth
       THEN Respond("patch_user", who, HTTP_401_UNAUTHORIZED, <<>>, <<>>) /\ UNCHANGED req
       ELSE IF ~who.admin
       THEN Respond("patch_user", who, HTTP_403_FORBIDDEN, <<>>, <<>>) /\ UNCHANGED req
       ELSE IF user_id \notin DOMAIN users
       THEN Respond("patch_user", who, HTTP_404_NOT_FOUND, <<"db_get_user_by_id">>, <<>>)
            /\ UNCHANGED req
       ELSE IF value \notin Roles
       THEN Respond("patch_user", who, HTTP_400_BAD_REQUEST, <<"db_get_user_by_id">>, <<>>)
            /\ UNCHANGED req
       ELSE IF users[user_id] = value
       THEN Respond("patch_user", who, HTTP_200_OK, <<"db_get_user_by_id">>, <<>>)
            /\ UNCHANGED req
       ELSE Suspend(p, [pc |-> "patch_user_update", who |-> who, in |-> in,
                        calls |-> <<"db_get_user_by_id">>])
            /\ UNCHANGED last

(* patch_user resumed: db_update_user(user_id, 'role', value). *)
patch_user_update(p) ==
    /\ req[p].pc = "patch_user_update"
    /\ users' = [users EXCEPT ![req[p].in.user_id] = req[p].in.value]
    /\ Respond("patch_user", req[p].who, HTTP_200_OK,
               Append(req[p].calls, "db_update_user"), <<>>)
    /\ Finish(p)
    /\ UNCHANGED <<movies, nextMovieId, orders, clock>>

(* ------------------------------ movies --------------------------------- *)
post_movie(u, movie) ==
    /\ UNCHANGED <<users, orders, clock, req>>
    /\ LET who == Principal(u) IN
       IF ~who.auth
       THEN Respond("post_movie", who, HTTP_401_UNAUTHORIZED, <<>>, <<>>)
            /\ UNCHANGED <<movies, nextMovieId>>
       ELSE IF ~who.admin
       THEN Respond("post_movie", who, HTTP_403_FORBIDDEN, <<>>, <<>>)
            /\ UNCHANGED <<movies, nextMovieId>>
       ELSE /\ nextMovieId <= MaxMovies
            /\ movies' = movies @@ (nextMovieId :> movie)
            /\ nextMovieId' = nextMovieId + 1
            /\ Respond("post_movie", who, HTTP_201_CREATED, <<"db_insert_movie">>, <<>>)

(* Variant of the filter that fills in a default and keeps a requested value. *)
EffectiveAvailabilityDefaultOnly(u, availability) ==
    IF ~validate_admin(u) /\ availability = None THEN <<TRUE>> ELSE availability

(* The availability filter get_movies hands to the store. *)
EffectiveAvailability(u, availability) ==
    IF ~validate_admin(u) THEN <<TRUE>> ELSE availability

get_movies(u, availability) ==
    /\ UNCHANGED <<users, movies, nextMovieId, orders, clock, req>>
    /\ LET filter == EffectiveAvailability(u, availability)
           found == db_get_movies(filter)
           note == [availability |-> availability, filter |-> filter, movies |-> found]
       IN IF found /= {}
          THEN Respond("get_movies", Principal(u), HTTP_200_OK, <<"db_get_movies">>, note)
          ELSE Respond("get_movies", Principal(u), HTTP_404_NOT_FOUND, <<"db_get_movies">>,
                       note)

(* hasattr(movie, field_name) on a Movie object. *)
hasattr_movie(field_name) == field_name \in MovieFields \cup InheritedAttrs

(* patch_movie, up to its suspension after db_get_movie. *)
patch_movie(p, u, movie_id, field_name, value) ==
    /\ req[p] = Idle
    /\ UNCHANGED <<users, movies, nextMovieId, orders, clock>>
    /\ LET who == Principal(u)
           in == [movie_id |-> movie_id, field_name |-> field_name, value |-> value]
           note == [field_name |-> field_name, found |-> movie_id \in DOMAIN movies] IN
       IF ~who.auth
       THEN Respond("patch_movie", who, HTTP_401_UNAUTHORIZED, <<>>, <<>>) /\ UNCHANGED req
       ELSE IF ~who.admin
       THEN Respond("patch_movie", who, HTTP_403_FORBIDDEN, <<>>, <<>>) /\ UNCHANGED req
       ELSE IF movie_id \notin DOMAIN movies
       THEN Respond("patch_movie", who, HTTP_404_NOT_FOUND, <<"db_get_movie">>, note)
            /\ UNCHANGED req
       ELSE IF ~hasattr_movie(field_name)
       THEN Respond("patch_movie", who, HTTP_400_BAD_REQUEST, <<"db_get_movie">>, note)
            /\ UNCHANGED req
       ELSE Suspend(p, [pc |-> "patch_movie_update", who |-> who, in |-> in,
                        calls |-> <<"db_get_movie">>])
            /\ UNCHANGED last

(* patch_movie resumed: db_update_movie(movie, field_name, value).  A name  *)
(* that is no column of the table makes the statement fail; nothing        *)
(* catches it and the request ends in a server error.                      *)
patch_movie_update(p) ==
    /\ req[p].pc = "patch_movie_update"
    /\ movies' = db_update_movie(req[p].in.movie_id, req[p].in.field_name, req[p].in.value)
    /\ Respond("patch_movie", req[p].who,
               IF req[p].in.field_name \in MovieFields
               THEN HTTP_200_OK ELSE HTTP_500_INTERNAL_SERVER_ERROR,
               Append(req[p].calls, "db_update_movie"),
               [field_name |-> req[p].in.field_name, found |-> TRUE])
    /\ Finish(p)
    /\ UNCHANGED <<users, nextMovieId, orders, clock>>

(* delete_movie, up to its suspension after db_get_movie. *)
delete_movie(p, u, movie_id) ==
    /\ req[p] = Idle
    /\ UNCHANGED <<users, movies, nextMovieId, orders, clock>>
    /\ LET who == Principal(u) IN
       IF ~who.auth
       THEN Respond("delete_movie", who, HTTP_401_UNAUTHORIZED, <<>>, <<>>) /\ UNCHANGED req
       ELSE IF ~who.admin
       THEN Respond("delete_movie", who, HTTP_403_FORBIDDEN, <<>>, <<>>) /\ UNCHANGED req
       ELSE IF movie_id \notin DOMAIN movies
       THEN Respond("delete_movie", who, HTTP_404_NOT_FOUND, <<"db_get_movie">>, <<>>)
            /\ UNCHANGED req
       ELSE Suspend(p, [pc |-> "delete_movie_delete", who |-> who, movie_id |-> movie_id,
                        calls |-> <<"db_get_movie">>])
            /\ UNCHANGED last

MessageDeleted == "Deleted successfully."
MessageUnavailable == "The movie was set to unavailable, but was not deleted."

(* delete_movie resumed: db_delete_movie(movie_id) inside the try.  The    *)
(* store refuses to delete a row an order refers to.                       *)
delete_movie_delete(p) ==
    /\ req[p].pc = "delete_movie_delete"
    /\ UNCHANGED <<users, nextMovieId, orders, clock>>
    /\ IF Referenced(req[p].movie_id)
       THEN /\ Suspend(p, [req[p] EXCEPT !.pc = "delete_movie_except",
                                        !.calls = Append(@, "db_delete_movie")])
            /\ UNCHANGED <<movies, last>>
       ELSE /\ movies' = [k \in DOMAIN movies \ {req[p].movie_id} |-> movies[k]]
            /\ Respond("delete_movie", req[p].who, HTTP_200_OK,
                       Append(req[p].calls, "db_delete_movie"),
                       [movie_id |-> req[p].movie_id, message |-> MessageDeleted])
            /\ Finish(p)

(* Variant of the except branch that reports without disabling the movie. *)
delete_movie_except_report_only(p) ==
    /\ req[p].pc = "delete_movie_except"
    /\ Respond("delete_movie", req[p].who, HTTP_200_OK, req[p].calls,
               [movie_id |-> req[p].movie_id, message |-> MessageUnavailable])
    /\ Finish(p)
    /\ UNCHANGED <<users, movies, nextMovieId, orders, clock>>

(* delete_movie's except branch: db_update_movie(movie, 'availability', False). *)
delete_movie_except(p) ==
    /\ req[p].pc = "delete_movie_except"
    /\ movies' = db_update_movie(req[p].movie_id, "availability", FALSE)
    /\ Respond("delete_movie", req[p].who, HTTP_200_OK,
               Append(req[p].calls, "db_update_movie"),
               [movie_id |-> req[p].movie_id, message |-> MessageUnavailable])
    /\ Finish(p)
    /\ UNCHANGED <<users, nextMovieId, orders, clock>>

(* ------------------------------ orders --------------------------------- *)
(* The order post_order hands to db_insert_order: the request body with    *)
(* the fields the handler assigns.                                         *)
OrderDraft(body, u, now, movie) ==
    LET stamped == [body EXCEPT !.order_datetime = now, !.user_id = u] IN
    IF body.order_type = "rental"
    THEN [stamped EXCEPT !.price_paid = movie.rental_price,
                         !.expected_return_date =
                             <<Date(PlusDays(now, DAYS_TO_RETURN_MOVIES))>>]
    ELSE IF body.order_type = "purchase"
    THEN [stamped EXCEPT !.price_paid = movie.sale_price]
    ELSE stamped

(* post_order, up to its suspension after db_get_movie. *)
post_order(p, u, body) ==
    /\ req[p] = Idle
    /\ UNCHANGED <<users, movies, nextMovieId, orders, clock>>
    /\ LET who == Principal(u) IN
       IF ~who.auth
       THEN Respond("post_order", who, HTTP_401_UNAUTHORIZED, <<>>, <<>>) /\ UNCHANGED req
       ELSE IF body.movie_id \notin DOMAIN movies
       THEN Respond("post_order", who, HTTP_404_NOT_FOUND, <<"db_get_movie">>, <<>>)
            /\ UNCHANGED req
       ELSE Suspend(p, [pc |-> "post_order_insert", who |-> who,
                        movie |-> movies[body.movie_id],
                        calls |-> <<"db_get_movie">>,
                        order |-> OrderDraft(body, u, clock, movies[body.movie_id])])
            /\ UNCHANGED last

(* post_order resumed: db_insert_order(order).  The insert fails when the  *)
(* movie row the order refers to is gone.                                  *)
post_order_insert(p) ==
    /\ req[p].pc = "post_order_insert"
    /\ UNCHANGED <<users, movies, nextMovieId, clock>>
    /\ IF req[p].order.movie_id \notin DOMAIN movies
       THEN /\ Respond("post_order", req[p].who, HTTP_500_INTERNAL_SERVER_ERROR,
                       Append(req[p].calls, "db_insert_order"), <<>>)
            /\ UNCHANGED orders
            /\ Finish(p)
       ELSE /\ Len(orders) < MaxOrders
            /\ orders' = Append(orders, req[p].order)
            /\ Respond("post_order", req[p].who, HTTP_200_OK,
                       Append(req[p].calls, "db_insert_order"),
                       <<>>)
            /\ Finish(p)

(* Variant that counts the days since the order instead of since the due date. *)
delayed_days_since_order(order, returned_date) ==
    returned_date - Date(order.order_datetime)

delayed_days(order, returned_date) == returned_date - order.expected_return_date[1]

(* round(x, 2) of x = num / den cents: a nearest whole number of cents;    *)
(* which neighbour a value half way between two gets depends on the        *)
(* binary representation of x, so both are possible.                       *)
Round2(num, den) ==
    {n \in (num \div den)..(num \div den + 1) :
        2 * (IF n * den >= num THEN n * den - num ELSE num - n * den) <= den}

(* The penalty patch_order computes for a late return. *)
DelayPenalty(order, returned_date) ==
    Round2(order.price_paid * DELAY_PENALTY_PERCENTAGE_PER_DAY
               * delayed_days(order, returned_date), 100)

(* The values order.delay_penalty_paid may hold when patch_order reaches   *)
(* the write.                                                              *)
PenaltyAfterReturn(order, returned_date) ==
    IF returned_date > order.expected_return_date[1]
    THEN DelayPenalty(order, returned_date)
    ELSE {order.delay_penalty_paid}

(* patch_order, up to its suspension after db_get_order.  Comparing a date *)
(* with None raises; nothing catches it.                                   *)
patch_order(p, u, order_id, returned_date) ==
    /\ req[p] = Idle
    /\ UNCHANGED <<users, movies, nextMovieId, orders, clock>>
    /\ LET who == Principal(u) IN
       IF ~who.auth
       THEN Respond("patch_order", who, HTTP_401_UNAUTHORIZED, <<>>, <<>>) /\ UNCHANGED req
       ELSE IF order_id \notin 1..Len(orders)
       THEN Respond("patch_order", who, HTTP_404_NOT_FOUND, <<"db_get_order">>, <<>>)
            /\ UNCHANGED req
       ELSE IF orders[order_id].expected_return_date = None
       THEN Respond("patch_order", who, HTTP_500_INTERNAL_SERVER_ERROR, <<"db_get_order">>,
                    <<>>)
            /\ UNCHANGED req
       ELSE \E penalty \in PenaltyAfterReturn(orders[order_id], returned_date) :
            /\ Suspend(p, [pc |-> "patch_order_update", who |-> who, order_id |-> order_id,
                           calls |-> <<"db_get_order">>,
                           order |-> [orders[order_id] EXCEPT
                                        !.returned_date = <<returned_date>>,
                                        !.delay_penalty_paid = penalty]])
            /\ UNCHANGED last

(* Variant that prices the order again when it is returned. *)
ReturnFieldsRepriced(order) ==
    [returned_date |-> order.returned_date, delay_penalty_paid |-> order.delay_penalty_paid,
     price_paid |-> IF order.movie_id \in DOMAIN movies
                    THEN movies[order.movie_id].rental_price ELSE order.price_paid]

(* The fields patch_order hands to db_update_order. *)
ReturnFields(order) ==
    [returned_date |-> order.returned_date, delay_penalty_paid |-> order.delay_penalty_paid]

(* patch_order resumed: db_update_order(order, {...}). *)
patch_order_update(p) ==
    /\ req[p].pc = "patch_order_update"
    /\ orders' = db_update_order(req[p].order_id, ReturnFields(req[p].order))
    /\ Respond("patch_order", req[p].who, HTTP_200_OK,
               Append(req[p].calls, "db_update_order"),
               <<>>)
    /\ Finish(p)
    /\ UNCHANGED <<users, movies, nextMovieId, clock>>

(* Time passes: datetime.utcnow() grows. *)
Tick ==
    /\ clock < MaxClock
    /\ clock' = clock + 1
    /\ UNCHANGED <<users, movies, nextMovieId, orders, req, last>>

(* ----------------------------- requests -------------------------------- *)
(* Request bodies of POST /orders: the fields a client sends, the others   *)
(* at the model's defaults.                                                *)
OrderBodies(movie_ids, carried) ==
    [movie_id : movie_ids, order_type : OrderTypes, user_id : {NoUser},
     order_datetime : {0}, price_paid : {0}, expected_return_date : carried,
     returned_date : {None}, delay_penalty_paid : {0}]

ReturnDates == DAYS_TO_RETURN_MOVIES..(DAYS_TO_RETURN_MOVIES + MaxLate)

PatchValues(field_name) ==
    IF field_name = "availability" THEN BOOLEAN
    ELSE IF field_name \in {"rental_price", "sale_price"} THEN PriceValues
    ELSE {"x"}

(* Field names sent to PATCH /movies/{id}: declared attributes, an         *)
(* inherited method name and a name the object does not have.              *)
PatchFieldInputs == {"availability", "title", "dict", "bogus"}

CatalogMovieInputs == [rental_price : {1000}, sale_price : {2000}, availability : BOOLEAN]
OrderMovieInputs == [rental_price : PriceValues, sale_price : {2000}, availability : {TRUE}]
DeleteMovieInputs == [rental_price : {1000}, sale_price : {2000}, availability : {TRUE}]

(* --------------------------- specifications ---------------------------- *)
(* The catalog and the users: every caller; roles are changed by one       *)
(* worker, movies edited by the other, deletions served by both.           *)
NextCatalog ==
    \/ \E u \in Callers, t \in TargetUserIds, v \in RoleInputs : patch_user(1, u, t, v)
    \/ patch_user_update(1)
    \/ \E u \in Callers, m \in CatalogMovieInputs : post_movie(u, m)
    \/ \E u \in Callers, a \in AvailabilityFilters : get_movies(u, a)
    \/ \E u \in UserIds, m \in 1..(MaxMovies + 1), f \in PatchFieldInputs :
          \E v \in PatchValues(f) : patch_movie(2, u, m, f, v)
    \/ patch_movie_update(2)
    \/ \E p \in Procs, u \in UserIds, m \in 1..(MaxMovies + 1) : delete_movie(p, u, m)
    \/ \E p \in Procs : delete_movie_delete(p)

SpecCatalog == Init /\ [][NextCatalog]_vars

(* The order ledger over one movie: orders are created by one worker,      *)
(* prices edited by the other, returns served by both.                     *)
NextOrders ==
    \/ \E m \in OrderMovieInputs : nextMovieId = 1 /\ post_movie(1, m)
    \/ \E v \in PriceValues : patch_movie(2, 1, 1, "rental_price", v)
    \/ patch_movie_update(2)
    \/ \E u \in {2, NoUser}, b \in OrderBodies({1, 2}, {None, <<DAYS_TO_RETURN_MOVIES>>}) :
          post_order(1, u, b)
    \/ post_order_insert(1)
    \/ \E p \in Procs, u \in {2, NoUser}, o \in 1..(MaxOrders + 1), d \in ReturnDates :
          patch_order(p, u, o, d)
    \/ \E p \in Procs : patch_order_update(p)
    \/ Tick

SpecOrders == Init /\ [][NextOrders]_vars

(* Orders against deletions: every interleaving of the two handlers.       *)
NextDelete ==
    \/ \E m \in DeleteMovieInputs : post_movie(1, m)
    \/ \E p \in Procs, u \in UserIds, m \in 1..(MaxMovies + 1) : delete_movie(p, u, m)
    \/ \E p \in Procs : delete_movie_delete(p)
    \/ \E p \in Procs : delete_movie_except(p)
    \/ \E p \in Procs, b \in OrderBodies(1..(MaxMovies + 1), {None}) : post_order(p, 2, b)
    \/ \E p \in Procs : post_order_insert(p)

SpecDelete == Init /\ [][NextDelete]_vars

(* ------------------------------ claims --------------------------------- *)
AdminOps == {"patch_user", "post_movie", "patch_movie", "delete_movie"}
Nearest(n, num, den) == 2 * (IF n * den >= num THEN n * den - num ELSE num - n * den) <= den
Rentals == {i \in 1..Len(orders) : orders[i].order_type = "rental"}
Purchases == {i \in 1..Len(orders) : orders[i].order_type = "purchase"}
FrameFields == {"movie_id", "user_id", "order_type", "order_datetime", "price_paid",
                "expected_return_date"}

(* C1: whatever availability a caller who is not an admin (or is not      *)
(* authenticated) asks get_movies for, the filter handed to the store is   *)
(* true and no movie of the response has availability false.               *)
C1_NonAdminSeesOnlyAvailable ==
    (last.op = "get_movies" /\ ~last.admin) =>
        /\ last.note.filter = <<TRUE>>
        /\ \A r \in last.note.movies : r.availability

C1_Witness ==
    /\ last.op = "get_movies" /\ ~last.admin /\ last.status = HTTP_200_OK
    /\ last.note.availability = <<FALSE>>
    /\ \E m \in DOMAIN movies : ~movies[m].availability

(* C2: the step of post_order that stores an order stores a rental with    *)
(* price_paid = the rental price read and expected_return_date = the       *)
(* order's date + DAYS_TO_RETURN_MOVIES, and a purchase with price_paid =  *)
(* the sale price read and no expected return date, whatever the request   *)
(* carried.                                                                *)
C2_OrderPricedAtCreation ==
    [][\A p \in Procs :
          (req[p].pc = "post_order_insert" /\ Len(orders') = Len(orders) + 1) =>
              LET o == orders'[Len(orders')]
                  m == req[p].movie
              IN /\ o.order_type = "rental" =>
                       /\ o.price_paid = m.rental_price
                       /\ o.expected_return_date =
                              <<Date(o.order_datetime) + DAYS_TO_RETURN_MOVIES>>
                 /\ o.order_type = "purchase" =>
                       /\ o.price_paid = m.sale_price
                       /\ o.expected_return_date = None]_vars

(* C3: a rental whose returned date equals its expected return date has a  *)
(* delay penalty of 0, in the order patch_order returns and in the store.  *)
C3_OnTimeReturnNoPenalty ==
    /\ \A i \in Rentals :
          orders[i].returned_date = orders[i].expected_return_date =>
              orders[i].delay_penalty_paid = 0
    /\ \A p \in Procs :
          (/\ req[p].pc = "patch_order_update"
           /\ req[p].order.order_type = "rental"
           /\ req[p].order.returned_date = req[p].order.expected_return_date) =>
              req[p].order.delay_penalty_paid = 0

(* C4: a rental stored with a returned date later than its expected return *)
(* date holds delay_penalty_paid = price_paid * rate * days late rounded   *)
(* to the cent; 10.00 at 10 percent a day, three days late, holds 3.00.   *)
C4_LatePenaltyAmount ==
    \A i \in Rentals :
        LET o == orders[i] IN
        (o.returned_date /= None /\ o.returned_date[1] > o.expected_return_date[1]) =>
            LET days == o.returned_date[1] - o.expected_return_date[1] IN
            /\ Nearest(o.delay_penalty_paid,
                       o.price_paid * DELAY_PENALTY_PERCENTAGE_PER_DAY * days, 100)
            /\ (o.price_paid = 1000 /\ DELAY_PENALTY_PERCENTAGE_PER_DAY = 10 /\ days = 3) =>
                   o.delay_penalty_paid = 300

C4_Witness ==
    \E i \in Rentals :
        /\ orders[i].price_paid = 1000
        /\ orders[i].returned_date = <<orders[i].expected_return_date[1] + 3>>
        /\ orders[i].delay_penalty_paid = 300

(* C5: patch_movie by an admin on an existing movie with a field name that *)
(* is not a declared attribute of Movie ends with status 400 and makes no  *)
(* call to the store beyond the lookup.                                    *)
C5_UndeclaredFieldRejected ==
    (/\ last.op = "patch_movie" /\ last.admin
     /\ last.note.found /\ last.note.field_name \notin MovieFields) =>
        /\ last.status = HTTP_400_BAD_REQUEST
        /\ last.calls = <<"db_get_movie">>

(* C6: no stored order refers to a movie that is gone; delete_movie        *)
(* answers "Deleted successfully." only for a movie that is gone, and for  *)
(* a movie an order refers to it answers the set-to-unavailable message    *)
(* and leaves the movie in the store with availability false.              *)
C6_ReferencedMovieNeverRemoved ==
    /\ \A i \in 1..Len(orders) : orders[i].movie_id \in DOMAIN movies
    /\ (last.op = "delete_movie" /\ last.status = HTTP_200_OK) =>
          /\ last.note.message = MessageDeleted => last.note.movie_id \notin DOMAIN movies
          /\ Referenced(last.note.movie_id) =>
                /\ last.note.message = MessageUnavailable
                /\ ~movies[last.note.movie_id].availability

C6_Witness ==
    /\ last.op = "delete_movie" /\ last.status = HTTP_200_OK
    /\ last.note.message = MessageUnavailable
    /\ Referenced(last.note.movie_id)
    /\ \E p \in Procs : req[p].pc = "post_order_insert"

(* C7: a request to patch_user, post_movie, patch_movie or delete_movie by *)
(* an authenticated caller who is not an admin ends with status 403 having *)
(* made no store call, and the step leaves users and movies unchanged.     *)
C7_ForbiddenBeforeAnyAccess ==
    [][(last'.op \in AdminOps /\ last'.auth /\ ~last'.admin) =>
          /\ last'.status = HTTP_403_FORBIDDEN
          /\ last'.calls = <<>>
          /\ users' = users
          /\ movies' = movies]_vars

C7_Witness ==
    /\ last.op = "patch_user" /\ last.status = HTTP_403_FORBIDDEN
    /\ DOMAIN movies /= {}
    /\ \E p \in Procs : req[p].pc = "patch_movie_update"

(* C8: the stored delay_penalty_paid of an order becomes non-zero only in  *)
(* a step that stores a late return, and once non-zero it never changes.   *)
C8_PenaltySetAtMostOnce ==
    [][\A i \in 1..Len(orders) :
          /\ orders[i].delay_penalty_paid /= 0 =>
                orders'[i].delay_penalty_paid = orders[i].delay_penalty_paid
          /\ (orders[i].delay_penalty_paid = 0 /\ orders'[i].delay_penalty_paid /= 0) =>
                /\ orders'[i].returned_date /= None
                /\ orders'[i].expected_return_date /= None
                /\ orders'[i].returned_date[1] > orders'[i].expected_return_date[1]]_vars

(* C9: no step removes an order or changes the movie, user, type,          *)
(* timestamp, price_paid or expected_return_date of a stored order.        *)
C9_OrderFrameKept ==
    [][/\ Len(orders') >= Len(orders)
       /\ \A i \in 1..Len(orders) :
             /\ DOMAIN orders'[i] = DOMAIN orders[i]
             /\ \A f \in FrameFields : orders'[i][f] = orders[i][f]]_vars

C9_Witness ==
    \E i \in Rentals :
        /\ orders[i].returned_date /= None
        /\ orders[i].delay_penalty_paid /= 0
        /\ orders[i].movie_id \in DOMAIN movies
        /\ movies[orders[i].movie_id].rental_price /= orders[i].price_paid

(* C10: a stored purchase never has a returned date or a delay penalty.    *)
C10_PurchaseNeverReturned ==
    \A i \in Purchases :
        orders[i].returned_date = None /\ orders[i].delay_penalty_paid = 0

====
